---- MODULE Spec2Model ----
(***************************************************************************)
(* EchoCore Pro voice server (EchoCorePro/Scripts/openvoice_server.py).    *)
(*                                                                         *)
(* The module models the Flask process: the model globals set by           *)
(* load_models at startup, the speaker registry with its reference-audio   *)
(* files, and the request handlers switch_model, clone_voice,              *)
(* delete_speaker and synthesize.  A synthesize request is served by a     *)
(* handler thread (app.run(..., threaded=True)); the thread's position in  *)
(* synthesize_with_xtts (chunk index, attempt number, best_chunk_path,     *)
(* max_duration, chunk_files) is part of the state, and every backend call *)
(* is two steps, its start and its return, so that other handlers          *)
(* interleave with it.                                                     *)
(*                                                                         *)
(* Spec and SpecThreaded are the server with one and with two handler      *)
(* threads; SpecRegistry and SpecSentences are the server under requests   *)
(* that exercise the speaker registry and long texts; SpecSplit and        *)
(* SpecMerge start at the calls of smart_split and merge_wavs, on every    *)
(* argument within the bounds.                                             *)
(* SpecLive is Spec with weak fairness on the handler thread's steps: the  *)
(* thread keeps running and every backend call returns.                    *)
(*                                                                         *)
(* Text is a sequence of one-character strings.  Durations and speeds are  *)
(* integers in tenths (2.0 s is 20, speed 0.5 is 5).                       *)
(***************************************************************************)
EXTENDS Integers, Sequences, FiniteSets, TLC

(***************************************************************************)
(* Bounds of the model.                                                    *)
(***************************************************************************)
\* chunk_retries of a request ranges over -2 .. MaxRetries
MaxRetries == 2

(***************************************************************************)
(* Program constants.                                                      *)
(***************************************************************************)
\* synthesize: len(text) > 5000
MaxTextLen == 5000
\* synthesize: speed < 0.5 (tenths)
MinSpeed == 5
\* synthesize: speed > 2.0 (tenths)
MaxSpeed == 20
\* clone_voice: len(speaker_id) > 100
MaxIdLen == 100
\* clone_voice: duration < 3.0 (tenths of a second)
MinRefDuration == 30
\* clone_voice: duration > 60.0 (tenths of a second)
MaxRefDuration == 600

None == "None"

\* best_chunk_path = None
NoPath == <<>>

(***************************************************************************)
(* Strings.                                                                *)
(***************************************************************************)
\* str.isspace on the characters of the model's alphabet
Whitespace == {" "}

\* the lookbehind class [.!?] of smart_split's re.split
Terminators == {".", "!", "?"}

\* the characters synthesize replaces by a space
Vocalized == {".", ",", ":", ";"}

Str(n, c) == [k \in 1..n |-> c]

Max(S) == CHOOSE x \in S : \A y \in S : y <= x

Min(S) == CHOOSE x \in S : \A y \in S : x <= y

\* index of the first character of s outside drop (Len(s)+1 when there is none)
FirstOutside(s, drop) ==
    IF \A k \in 1..Len(s) : s[k] \in drop THEN Len(s) + 1
    ELSE CHOOSE k \in 1..Len(s) : s[k] \notin drop /\ \A j \in 1..(k-1) : s[j] \in drop

\* index of the last character of s outside drop (0 when there is none)
LastOutside(s, drop) ==
    IF \A k \in 1..Len(s) : s[k] \in drop THEN 0
    ELSE Len(s) - (CHOOSE d \in 0..(Len(s)-1) :
                     s[Len(s)-d] \notin drop /\ \A e \in 0..(d-1) : s[Len(s)-e] \in drop)

\* str.strip(): leading and trailing whitespace removed
Strip(s) == SubSeq(s, FirstOutside(s, Whitespace), LastOutside(s, Whitespace))

\* str.strip(','): leading and trailing commas removed
StripCommas(s) == SubSeq(s, FirstOutside(s, {","}), LastOutside(s, {","}))

\* text.replace('.', ' ').replace(',', ' ').replace(':', ' ').replace(';', ' ')
ReplaceVocalized(s) == [k \in 1..Len(s) |-> IF s[k] \in Vocalized THEN " " ELSE s[k]]

\* ' '.join(text.split()): the words of s joined by single spaces
JoinSplit(s) ==
    LET first == FirstOutside(s, Whitespace)
        last  == LastOutside(s, Whitespace)
        body  == SubSeq(s, first, last)
        Keep(k) == \/ body[k] \notin Whitespace
                   \/ body[k-1] \notin Whitespace
        kept  == SelectSeq([k \in 1..Len(body) |-> k], Keep)
    IN  [k \in 1..Len(kept) |-> IF body[kept[k]] \in Whitespace THEN " " ELSE body[kept[k]]]

\* the text cleaning at the head of synthesize
CleanText(raw) == JoinSplit(ReplaceVocalized(Strip(raw)))

(***************************************************************************)
(* smart_split.                                                            *)
(***************************************************************************)
\* re.split(r'(?<=[.!?])\s+', text): cut at every whitespace run that follows
\* a terminator; the run itself is dropped.  k is where the current piece starts
RECURSIVE SentencesFrom(_, _, _)
SentencesFrom(s, k, acc) ==
    LET cuts == {c \in k..Len(s) : s[c] \in Whitespace /\ c > 1 /\ s[c-1] \in Terminators}
    IN  IF cuts = {} THEN Append(acc, SubSeq(s, k, Len(s)))
        ELSE LET c    == Min(cuts)
                 rest == {j \in c..Len(s) : s[j] \notin Whitespace}
                 nxt  == IF rest = {} THEN Len(s) + 1 ELSE Min(rest)
             IN  SentencesFrom(s, nxt, Append(acc, SubSeq(s, k, c - 1)))

SplitSentences(text) == SentencesFrom(text, 1, <<>>)

\* str.split(','): the pieces between commas, empty pieces included
RECURSIVE PartsFrom(_, _, _)
PartsFrom(s, k, acc) ==
    LET commas == {c \in k..Len(s) : s[c] = ","}
    IN  IF commas = {} THEN Append(acc, SubSeq(s, k, Len(s)))
        ELSE LET c == Min(commas)
             IN  PartsFrom(s, c + 1, Append(acc, SubSeq(s, k, c - 1)))

SplitCommas(s) == PartsFrom(s, 1, <<>>)

\* the inner loop of smart_split: for part in parts
RECURSIVE CommaLoop(_, _, _, _)
CommaLoop(parts, chunks, current_chunk, max_len) ==
    IF parts = <<>> THEN [chunks |-> chunks, current_chunk |-> current_chunk]
    ELSE LET part == Head(parts)
         IN  IF Len(current_chunk) + Len(part) < max_len
             THEN CommaLoop(Tail(parts), chunks, current_chunk \o part \o <<",">>, max_len)
             ELSE CommaLoop(Tail(parts),
                            IF current_chunk # <<>>
                            THEN Append(chunks, StripCommas(Strip(current_chunk)))
                            ELSE chunks,
                            part \o <<",">>, max_len)

\* the outer loop of smart_split: for sentence in sentences
RECURSIVE SentenceLoop(_, _, _, _)
SentenceLoop(sentences, chunks, current_chunk, max_len) ==
    IF sentences = <<>> THEN [chunks |-> chunks, current_chunk |-> current_chunk]
    ELSE LET sentence == Head(sentences)
         IN  IF Len(current_chunk) + Len(sentence) < max_len
             THEN SentenceLoop(Tail(sentences), chunks,
                               current_chunk \o sentence \o <<" ">>, max_len)
             ELSE LET flushed == IF current_chunk # <<>>
                                 THEN Append(chunks, Strip(current_chunk))
                                 ELSE chunks
                      started == sentence \o <<" ">>
                  IN  IF Len(started) > max_len
                      THEN LET r == CommaLoop(SplitCommas(started), flushed, <<>>, max_len)
                           IN  SentenceLoop(Tail(sentences), r.chunks, r.current_chunk, max_len)
                      ELSE SentenceLoop(Tail(sentences), flushed, started, max_len)

\* a smart_split without lines 259-260: what is left in current_chunk after
\* the loop is not returned
smart_split_without_rest(text, max_len) ==
    IF Len(text) <= max_len THEN <<text>>
    ELSE SentenceLoop(SplitSentences(text), <<>>, <<>>, max_len).chunks

smart_split(text, max_len) ==
    IF Len(text) <= max_len THEN <<text>>
    ELSE LET r == SentenceLoop(SplitSentences(text), <<>>, <<>>, max_len)
         IN  IF r.current_chunk # <<>>
             THEN Append(r.chunks, StripCommas(Strip(r.current_chunk)))
             ELSE r.chunks

(***************************************************************************)
(* State.                                                                  *)
(***************************************************************************)
VARIABLES
    started,              \* load_models has run and app.run is serving
    xtts_model,           \* xtts_model is not None
    chatterbox_model,     \* chatterbox_model is not None
    openvoice_tts_model,  \* openvoice_tts_model is not None
    openvoice_converter,  \* openvoice_converter is not None
    model_loaded,
    active_model,
    speakers,             \* speaker_id -> [audio_path, duration]
    ref_files,            \* speakers/<id>.wav on disk: id -> duration of its audio
    pc,                   \* per handler thread: idle, loop, call, direct, merge, sent
    loc,                  \* per handler thread: the locals of synthesize_with_xtts
    tmp,                  \* per handler thread: chunk files of its request that exist
    hist,                 \* per handler thread: outcomes of the attempts of one chunk
    resp,                 \* per handler thread: response to the request it serves
    wavs                  \* WAV files merge_wavs reads and writes: path -> [params, data]

vars == <<started, xtts_model, chatterbox_model, openvoice_tts_model, openvoice_converter,
          model_loaded, active_model, speakers, ref_files, pc, loc, tmp, hist, resp,
          wavs>>

models == <<xtts_model, chatterbox_model, openvoice_tts_model, openvoice_converter,
            model_loaded, active_model>>

registry == <<speakers, ref_files>>

handlers == <<pc, loc, tmp, hist, resp>>

Threads == {1, 2}

ModelNames == {"xtts", "chatterbox", "openvoice"}

EmptyMap == [x \in {} |-> 0]

Put(f, k, v) == [x \in DOMAIN f \cup {k} |-> IF x = k THEN v ELSE f[x]]

Drop(f, k) == [x \in DOMAIN f \ {k} |-> f[x]]

NoLocals == [backend |-> None, text |-> <<>>, language |-> None, spoken |-> None,
             speed |-> 0,
             chunks |-> <<>>, audio_path |-> <<>>,
             chunk_length |-> 0, chunk_min_seconds |-> 0, chunk_retries |-> 0,
             i |-> 0, attempt |-> 0, chunk_success |-> FALSE,
             broke |-> FALSE, best_chunk_path |-> NoPath, max_duration |-> 0,
             chunk_files |-> <<>>]

NoHist == [chunk |-> 0, outcomes |-> <<>>, errored |-> {}, called |-> {}, calls |-> 0]

NoResp == [code |-> 0, detail |-> None, audio |-> <<>>]

\* the module-level assignments: lines 21-31
Init ==
    /\ started = FALSE
    /\ xtts_model = FALSE
    /\ chatterbox_model = FALSE
    /\ openvoice_tts_model = FALSE
    /\ openvoice_converter = FALSE
    /\ model_loaded = FALSE
    /\ active_model = "openvoice"
    /\ speakers = EmptyMap
    /\ ref_files = EmptyMap
    /\ pc = [t \in Threads |-> "idle"]
    /\ loc = [t \in Threads |-> NoLocals]
    /\ tmp = [t \in Threads |-> {}]
    /\ hist = [t \in Threads |-> NoHist]
    /\ resp = [t \in Threads |-> NoResp]
    /\ wavs = EmptyMap

(***************************************************************************)
(* Startup: load_models, then app.run.                                     *)
(***************************************************************************)
\* how load_openvoice_models can end: "missing" (import error or a missing
\* checkpoint file: nothing assigned), "ckpt" (BaseSpeakerTTS assigned, then
\* load_ckpt or the converter's constructor raises), "converter" (the converter
\* assigned too, then its load_ckpt or torch.load raises), "ok"
OpenVoiceLoads == {"missing", "ckpt", "converter", "ok"}

\* the value load_openvoice_models returns
OpenVoiceLoaded(o) == o = "ok"

\* active_model after load_models
LoadedActive(x, o, active) ==
    IF x THEN "xtts" ELSE IF OpenVoiceLoaded(o) THEN "openvoice" ELSE active

load_models(x, o) ==
    /\ ~started
    /\ started' = TRUE
    /\ xtts_model' = x
    /\ openvoice_tts_model' = (o # "missing")
    /\ openvoice_converter' = (o \in {"converter", "ok"})
    /\ model_loaded' = (x \/ OpenVoiceLoaded(o))
    /\ active_model' = LoadedActive(x, o, active_model)
    /\ UNCHANGED <<wavs, chatterbox_model, registry, handlers>>

(***************************************************************************)
(* Backends.                                                               *)
(***************************************************************************)
\* "<name>_model is not None", as health, list_models, switch_model and
\* synthesize_audio test it
Available(name) ==
    CASE name = "xtts" -> xtts_model
      [] name = "chatterbox" -> chatterbox_model
      [] name = "openvoice" -> openvoice_tts_model
      [] OTHER -> FALSE

\* xtts_languages of synthesize_audio
xtts_languages == {"it", "de", "pt", "pl", "tr", "ru", "nl", "cs", "ar", "hu", "vi"}

\* xtts_lang_map of synthesize_with_xtts
xtts_lang_map ==
    [code \in {"en", "es", "fr", "de", "it", "pt", "pl", "tr", "ru", "nl", "cs", "ar",
               "zh", "ja", "ko", "hu", "vi"} |-> IF code = "zh" THEN "zh-cn" ELSE code]

\* language_map of synthesize_with_openvoice
language_map ==
    [code \in {"en", "es", "fr", "zh", "ja", "ko"} |->
        CASE code = "en" -> "English" [] code = "es" -> "Spanish"
          [] code = "fr" -> "French"  [] code = "zh" -> "Chinese"
          [] code = "ja" -> "Japanese" [] code = "ko" -> "Korean"]

\* dict.get(key, default)
Get(map, key, default) == IF key \in DOMAIN map THEN map[key] ELSE default

\* the language the backend is asked to speak: xtts_language, ov_language;
\* chatterbox_model.generate takes no language
Spoken(backend, language) ==
    CASE backend = "xtts" -> Get(xtts_lang_map, language, "en")
      [] backend = "openvoice" -> Get(language_map, language, "English")
      [] OTHER -> None

\* a dispatch that consults the active model before the language
ActiveFirst(language, active) ==
    IF active \in ModelNames /\ Available(active) THEN active
    ELSE IF language \in xtts_languages /\ Available("xtts") THEN "xtts"
    ELSE None

\* the backend synthesize_audio dispatches to, None for its ValueError
synthesize_audio(language, active) ==
    IF language \in xtts_languages /\ Available("xtts") THEN "xtts"
    ELSE IF active = "xtts" /\ Available("xtts") THEN "xtts"
    ELSE IF active = "chatterbox" /\ Available("chatterbox") THEN "chatterbox"
    ELSE IF active = "openvoice" /\ Available("openvoice") THEN "openvoice"
    ELSE None

\* a switch that accepts every known name, loaded or not
SwitchToKnownName(model_name) ==
    IF model_name \in ModelNames THEN 200 ELSE 400

\* the status switch_model answers with
SwitchStatus(model_name) ==
    IF model_name \in ModelNames /\ Available(model_name) THEN 200 ELSE 400

switch_model(model_name) ==
    /\ started
    /\ active_model' = IF SwitchStatus(model_name) = 200 THEN model_name ELSE active_model
    /\ UNCHANGED <<wavs, started, xtts_model, chatterbox_model, openvoice_tts_model,
                   openvoice_converter, model_loaded, registry, handlers>>

(***************************************************************************)
(* Speaker registry.                                                       *)
(***************************************************************************)
\* librosa.load raised on the uploaded audio
Undecodable == -1

\* a check of the duration that refuses the limits themselves
CloneStatusExclusive(speaker_id, duration) ==
    IF ~model_loaded THEN 503
    ELSE IF speaker_id = <<>> \/ Len(speaker_id) > MaxIdLen THEN 400
    ELSE IF duration = Undecodable THEN 500
    ELSE IF duration <= MinRefDuration THEN 400
    ELSE IF duration >= MaxRefDuration THEN 400
    ELSE 200

\* the status clone_voice answers with for an upload of the given duration
CloneStatus(speaker_id, duration) ==
    IF ~model_loaded THEN 503
    ELSE IF speaker_id = <<>> \/ Len(speaker_id) > MaxIdLen THEN 400
    ELSE IF duration = Undecodable THEN 500
    ELSE IF duration < MinRefDuration THEN 400
    ELSE IF duration > MaxRefDuration THEN 400
    ELSE 200

clone_voice(speaker_id, duration) ==
    LET code == CloneStatus(speaker_id, duration)
        \* audio_file.save(audio_path) has run
        saved == ~(~model_loaded \/ speaker_id = <<>> \/ Len(speaker_id) > MaxIdLen)
    IN  /\ started
        /\ ref_files' = IF ~saved THEN ref_files
                        ELSE IF code = 400 THEN Drop(ref_files, speaker_id)
                        ELSE Put(ref_files, speaker_id, duration)
        /\ speakers' = IF code = 200
                       THEN Put(speakers, speaker_id,
                                [audio_path |-> speaker_id, duration |-> duration])
                       ELSE speakers
        /\ UNCHANGED <<wavs, started, models, handlers>>

\* a delete_speaker that forgets the speaker and leaves its file on disk
delete_speaker_entry(speaker_id) ==
    /\ started
    /\ speakers' = Drop(speakers, speaker_id)
    /\ UNCHANGED <<wavs, started, models, ref_files, handlers>>

\* GET /speakers
list_speakers == DOMAIN speakers

\* the status delete_speaker answers with
DeleteStatus(speaker_id) == IF speaker_id \in DOMAIN speakers THEN 200 ELSE 404

delete_speaker(speaker_id) ==
    /\ started
    /\ IF DeleteStatus(speaker_id) = 200
       THEN /\ ref_files' = Drop(ref_files, speakers[speaker_id].audio_path)
            /\ speakers' = Drop(speakers, speaker_id)
       ELSE UNCHANGED registry
    /\ UNCHANGED <<wavs, started, models, handlers>>

(***************************************************************************)
(* synthesize.                                                             *)
(***************************************************************************)
Response(code, detail) == [code |-> code, detail |-> detail, audio |-> <<>>]

\* the checks of synthesize before its try block, in order; NoResp when the
\* request passes them (text is the cleaned text)
Rejection(text, speaker_id, speed) ==
    IF ~model_loaded THEN Response(503, "No model loaded")
    ELSE IF text = <<>> THEN Response(400, "Text cannot be empty")
    ELSE IF Len(text) > MaxTextLen THEN Response(400, "Text too long")
    ELSE IF speaker_id \notin DOMAIN speakers THEN Response(404, "Speaker not found")
    ELSE IF speed < MinSpeed \/ speed > MaxSpeed THEN Response(400, "Speed must be between 0.5 and 2.0")
    ELSE NoResp

\* tempfile.mktemp(suffix=f'_chunk_{i}_{attempt}.wav'); chunks are numbered from 1 here
ChunkPath(i, attempt) == <<i, attempt>>

\* the path of the single file synthesize_with_openvoice / _chatterbox writes
WholePath == <<0, 0>>

\* "if not chunk.strip(): continue"
Blank(chunk) == Strip(chunk) = <<>>

\* a retry loop running range(chunk_retries + 2)
RetryOverLate(l) == l.broke \/ l.attempt >= l.chunk_retries + 2

\* the retry loop of a chunk is over: break, or range(chunk_retries + 1) exhausted
RetryOver(l) == l.broke \/ l.attempt >= l.chunk_retries + 1

\* a loop that puts the chunk's file in front of the earlier ones
SettledInFront(l) ==
    IF l.best_chunk_path # NoPath THEN <<l.best_chunk_path>> \o l.chunk_files
    ELSE l.chunk_files

\* lines 383-386: the chunk's file is appended when there is one
Settled(l) ==
    IF l.best_chunk_path # NoPath THEN Append(l.chunk_files, l.best_chunk_path)
    ELSE l.chunk_files

\* lines 336-338: the per-chunk variables at the head of chunk i
AtChunk(l, i) ==
    [l EXCEPT !.i = i, !.attempt = 0, !.broke = FALSE, !.chunk_success = FALSE,
              !.best_chunk_path = NoPath, !.max_duration = 0]

\* control up to the next backend call: past blank chunks and finished retry loops
RECURSIVE Advance(_)
Advance(l) ==
    IF l.i > Len(l.chunks) THEN l
    ELSE IF Blank(l.chunks[l.i]) THEN Advance(AtChunk(l, l.i + 1))
    ELSE IF RetryOver(l)
         THEN Advance(AtChunk([l EXCEPT !.chunk_files = Settled(l)], l.i + 1))
         ELSE l

\* what a backend call comes back with: an exception, or a file holding audio
\* of some duration
Raised == [ok |-> FALSE, duration |-> 0]

Audio(duration) == [ok |-> TRUE, duration |-> duration]

\* a loop body without the break of line 369: an attempt meeting the threshold
\* is kept and the loop goes on
EvaluateWithoutAccept(l, duration) ==
    IF l.chunk_min_seconds > 0
    THEN IF duration > l.max_duration \/ duration >= l.chunk_min_seconds
         THEN [l EXCEPT !.max_duration = duration,
                        !.chunk_success = duration >= l.chunk_min_seconds,
                        !.best_chunk_path = ChunkPath(l.i, l.attempt),
                        !.attempt = @ + 1]
         ELSE [l EXCEPT !.attempt = @ + 1]
    ELSE [l EXCEPT !.chunk_success = TRUE,
                   !.best_chunk_path = ChunkPath(l.i, l.attempt),
                   !.broke = TRUE]

\* a loop body without the break of line 378: with no threshold the audio is
\* kept and the loop goes on
EvaluateWithoutBreak(l, duration) ==
    IF l.chunk_min_seconds > 0
    THEN IF duration >= l.chunk_min_seconds
         THEN [l EXCEPT !.chunk_success = TRUE,
                        !.best_chunk_path = ChunkPath(l.i, l.attempt),
                        !.broke = TRUE]
         ELSE IF duration > l.max_duration
              THEN [l EXCEPT !.max_duration = duration,
                             !.best_chunk_path = ChunkPath(l.i, l.attempt),
                             !.attempt = @ + 1]
              ELSE [l EXCEPT !.attempt = @ + 1]
    ELSE [l EXCEPT !.chunk_success = TRUE,
                   !.best_chunk_path = ChunkPath(l.i, l.attempt),
                   !.attempt = @ + 1]

\* lines 358-378: what the loop body does with a call that returned audio of
\* the given duration
Evaluate(l, duration) ==
    IF l.chunk_min_seconds > 0
    THEN IF duration >= l.chunk_min_seconds
         THEN [l EXCEPT !.chunk_success = TRUE,
                        !.best_chunk_path = ChunkPath(l.i, l.attempt),
                        !.broke = TRUE]
         ELSE IF duration > l.max_duration
              THEN [l EXCEPT !.max_duration = duration,
                             !.best_chunk_path = ChunkPath(l.i, l.attempt),
                             !.attempt = @ + 1]
              ELSE [l EXCEPT !.attempt = @ + 1]
    ELSE [l EXCEPT !.chunk_success = TRUE,
                   !.best_chunk_path = ChunkPath(l.i, l.attempt),
                   !.broke = TRUE]

\* lines 344-381: one pass of the retry loop, the call ending in outcome
AfterAttempt(l, outcome) ==
    IF ~outcome.ok THEN [l EXCEPT !.attempt = @ + 1]
    ELSE Evaluate(l, outcome.duration)

PcOf(l) == IF l.i > Len(l.chunks) THEN "merge" ELSE "loop"

\* a handler that looks the active model up again at every backend call
CalledActive(l, active) == active

\* the model a backend call of the request is made on: synthesize_audio has
\* entered one synthesize_with_<backend>, which calls its own model whatever
\* active_model has become since
CalledBackend(l, active) == l.backend

\* POST /synthesize up to the first backend call
synthesize(t, data) ==
    LET text    == CleanText(data.text)
        rej     == Rejection(text, data.speaker_id, data.speed)
        backend == synthesize_audio(data.language, active_model)
        path    == speakers[data.speaker_id].audio_path
        \* the locals of synthesize and of the synthesize_with_<backend> it calls
        l       == [NoLocals EXCEPT
                       !.backend = backend,
                       !.text = text,
                       !.language = data.language,
                       !.spoken = Spoken(backend, data.language),
                       !.speed = data.speed,
                       !.audio_path = path,
                       !.chunk_length = data.chunk_size,
                       !.chunk_min_seconds = data.chunk_min_seconds,
                       !.chunk_retries = data.chunk_retries]
        l0      == Advance(AtChunk([l EXCEPT !.chunks = smart_split(text, data.chunk_size)], 1))
        direct  == /\ rej = NoResp
                   /\ backend \in {"openvoice", "chatterbox"}
                   /\ (backend = "chatterbox" \/ path \in DOMAIN ref_files)
    IN  /\ started
        /\ pc[t] = "idle"
        /\ IF rej # NoResp
           THEN /\ resp' = [resp EXCEPT ![t] = rej]
                /\ pc' = [pc EXCEPT ![t] = "sent"]
                /\ loc' = loc
           ELSE IF backend = None
           THEN /\ resp' = [resp EXCEPT ![t] = Response(500, "No model available")]
                /\ pc' = [pc EXCEPT ![t] = "sent"]
                /\ loc' = [loc EXCEPT ![t] = l]
           ELSE IF backend # "chatterbox" /\ path \notin DOMAIN ref_files
           THEN /\ resp' = [resp EXCEPT ![t] = Response(500, "No reference audio")]
                /\ pc' = [pc EXCEPT ![t] = "sent"]
                /\ loc' = [loc EXCEPT ![t] = l]
           ELSE IF backend = "xtts"
           THEN /\ loc' = [loc EXCEPT ![t] = l0]
                /\ pc' = [pc EXCEPT ![t] = PcOf(l0)]
                /\ resp' = resp
           ELSE /\ loc' = [loc EXCEPT ![t] = l]
                /\ pc' = [pc EXCEPT ![t] = "direct"]
                /\ resp' = resp
        /\ hist' = IF direct
                   THEN [hist EXCEPT ![t].called = {CalledBackend(l, active_model)},
                                     ![t].calls = 1]
                   ELSE hist
        /\ UNCHANGED <<wavs, started, models, registry, tmp>>

\* xtts_model.tts_to_file is entered for attempt loc[t].attempt of chunk loc[t].i
XttsCall(t) ==
    /\ pc[t] = "loop"
    /\ pc' = [pc EXCEPT ![t] = "call"]
    /\ hist' = [hist EXCEPT ![t] =
                   [(IF loc[t].attempt = 0
                     THEN [@ EXCEPT !.chunk = loc[t].i, !.outcomes = <<>>]
                     ELSE @)
                    EXCEPT !.called = @ \cup {CalledBackend(loc[t], active_model)},
                           !.calls = @ + 1]]
    /\ UNCHANGED <<wavs, started, models, registry, loc, tmp, resp>>

\* every attempt recorded for the chunk raised
AllErrored(outcomes) == outcomes # <<>> /\ \A k \in 1..Len(outcomes) : ~outcomes[k].ok

\* xtts_model.tts_to_file returns or raises; the loop runs on to the next call
XttsReturn(t, outcome) ==
    LET l    == loc[t]
        l1   == AfterAttempt(l, outcome)
        l2   == Advance(l1)
        outs == Append(hist[t].outcomes, outcome)
    IN  /\ pc[t] = "call"
        /\ loc' = [loc EXCEPT ![t] = l2]
        /\ pc' = [pc EXCEPT ![t] = PcOf(l2)]
        /\ tmp' = [tmp EXCEPT ![t] = IF ~outcome.ok THEN @
                                     ELSE @ \cup {ChunkPath(l.i, l.attempt)}]
        /\ hist' = [hist EXCEPT ![t] =
                       [@ EXCEPT !.outcomes = outs,
                                 !.errored = IF RetryOver(l1) /\ AllErrored(outs)
                                             THEN @ \cup {l.i} ELSE @]]
        /\ UNCHANGED <<wavs, started, models, registry, resp>>

\* w.getparams() of the WAV files a backend may write: channels, sample
\* width in bytes, frame rate
WavParams ==
    {[nchannels |-> 1, sampwidth |-> 2, framerate |-> 24000],
     [nchannels |-> 1, sampwidth |-> 2, framerate |-> 22050],
     [nchannels |-> 2, sampwidth |-> 2, framerate |-> 24000]}

\* "params = None"
NoParams == [nchannels |-> 0, sampwidth |-> 0, framerate |-> 0]

\* the loop of merge_wavs (lines 275-282) over the files still to read: a
\* path wave.open cannot read is skipped, the first file read gives params,
\* the frames of every file read are collected in order
RECURSIVE MergeRead(_, _, _, _)
MergeRead(file_paths, files, params, data) ==
    IF file_paths = <<>> THEN [params |-> params, data |-> data]
    ELSE LET path == Head(file_paths)
         IN  IF path \notin DOMAIN files
             THEN MergeRead(Tail(file_paths), files, params, data)
             ELSE MergeRead(Tail(file_paths), files,
                            IF params = NoParams THEN files[path].params ELSE params,
                            data \o files[path].data)

\* merge_wavs(file_paths, output_path): its return value and the file it
\* writes to output_path
merge_wavs(file_paths, files) ==
    LET r == MergeRead(file_paths, files, NoParams, <<>>)
    IN  IF file_paths = <<>> \/ r.params = NoParams
        THEN [ok |-> FALSE, params |-> NoParams, data |-> <<>>]
        ELSE [ok |-> TRUE, params |-> r.params, data |-> r.data]

\* line 327: chunks = smart_split(text, chunk_length)
SplitCall(t) ==
    /\ pc[t] = "splitting"
    /\ pc' = [pc EXCEPT ![t] = "split"]
    /\ loc' = [loc EXCEPT ![t].chunks = smart_split(loc[t].text, loc[t].chunk_length)]
    /\ UNCHANGED <<wavs, started, models, registry, tmp, hist, resp>>

\* merge_wavs called on the chunk files of thread t
MergeCall(t) ==
    LET r == merge_wavs(loc[t].chunk_files, wavs)
    IN  /\ pc[t] = "merging"
        /\ pc' = [pc EXCEPT ![t] = IF r.ok THEN "merged" ELSE "unmerged"]
        /\ wavs' = IF r.ok THEN Put(wavs, WholePath, [params |-> r.params, data |-> r.data])
                   ELSE wavs
        /\ UNCHANGED <<started, models, registry, loc, tmp, hist, resp>>

\* lines 391-396: the chunk files whose frames make up final_output, in the
\* order they are written: the single file moved, or merge_wavs' loop over
\* file_paths
RECURSIVE Assemble(_)
Assemble(chunk_files) ==
    IF Len(chunk_files) = 1 THEN chunk_files
    ELSE IF chunk_files = <<>> THEN <<>>
    ELSE <<Head(chunk_files)>> \o Assemble(Tail(chunk_files))

\* lines 388-406 and the response of synthesize
XttsFinish(t) ==
    LET l == loc[t]
    IN  /\ pc[t] = "merge"
        /\ pc' = [pc EXCEPT ![t] = "sent"]
        /\ loc' = loc
        /\ IF l.chunk_files = <<>>
           THEN \* merge_wavs returns False, os.path.getsize(final_output) raises
                /\ resp' = [resp EXCEPT ![t] = Response(500, "No such file")]
                /\ tmp' = tmp
           ELSE /\ resp' = [resp EXCEPT ![t] =
                              [code |-> 200, detail |-> None,
                               audio |-> Assemble(l.chunk_files)]]
                /\ tmp' = [tmp EXCEPT ![t] =
                              @ \ {l.chunk_files[k] : k \in 1..Len(l.chunk_files)}]
        /\ UNCHANGED <<wavs, started, models, registry, hist>>

\* the response has been sent and closed (call_on_close); the thread is free
Close(t) ==
    /\ pc[t] = "sent"
    /\ pc' = [pc EXCEPT ![t] = "idle"]
    /\ loc' = [loc EXCEPT ![t] = NoLocals]
    /\ tmp' = [tmp EXCEPT ![t] = {}]
    /\ hist' = [hist EXCEPT ![t] = NoHist]
    /\ resp' = [resp EXCEPT ![t] = NoResp]
    /\ UNCHANGED <<wavs, started, models, registry>>

\* synthesize_with_openvoice / synthesize_with_chatterbox: one call on the whole
\* text, which raises or returns audio
DirectReturn(t, ok) ==
    /\ pc[t] = "direct"
    /\ (loc[t].backend = "openvoice" /\ ~openvoice_converter) => ~ok
    /\ pc' = [pc EXCEPT ![t] = "sent"]
    /\ loc' = loc
    /\ resp' = [resp EXCEPT ![t] =
                   IF ok THEN [code |-> 200, detail |-> None, audio |-> <<WholePath>>]
                   ELSE Response(500, "synthesis failed")]
    /\ UNCHANGED <<wavs, started, models, registry, tmp, hist>>

(***************************************************************************)
(* Inputs.                                                                 *)
(***************************************************************************)
IdA == <<"a">>

IdB == <<"b">>

\* durations (tenths of a second) of the audio a backend call may write
Durations == {0, 10, 15, 20, 25}

Outcomes == {Raised} \cup {Audio(d) : d \in Durations}

TextOne == <<"a">>

TextTwo == <<"a", "a", "!", " ", "a">>

TextBlank == <<" ", ".", " ", ",">>

TextLong == Str(MaxTextLen + 1, "a")

Request(text, speaker_id, language, speed, chunk_size, chunk_min_seconds, chunk_retries) ==
    [text |-> text, speaker_id |-> speaker_id, language |-> language, speed |-> speed,
     chunk_size |-> chunk_size, chunk_min_seconds |-> chunk_min_seconds,
     chunk_retries |-> chunk_retries]

\* test_params.py's request, with a one-character text and the handler's
\* default chunking policy
BaseRequest == Request(TextOne, IdA, "en", 10, 200, 20, 0)

\* requests that differ in the chunking policy
PolicyRequests ==
    {[BaseRequest EXCEPT !.text = TextTwo, !.chunk_size = chunk_size,
                         !.chunk_min_seconds = chunk_min_seconds,
                         !.chunk_retries = chunk_retries] :
        chunk_size \in {3, 200}, chunk_min_seconds \in {-10, 0, 20},
        chunk_retries \in -2..MaxRetries}
    \cup {[BaseRequest EXCEPT !.chunk_size = chunk_size] : chunk_size \in {-1, 0}}

\* requests that differ in the language
LanguageRequests == {[BaseRequest EXCEPT !.language = language] : language \in {"en", "it", "xx"}}

\* requests that differ in the validated fields
FieldRequests ==
    {[BaseRequest EXCEPT !.text = text] : text \in {<<>>, TextBlank, TextLong}}
    \cup {[BaseRequest EXCEPT !.speaker_id = IdB]}
    \cup {[BaseRequest EXCEPT !.speed = speed] : speed \in {4, 5, 20, 21}}

Requests == PolicyRequests \cup LanguageRequests \cup FieldRequests

\* the requests two concurrent clients send
ThreadedRequests ==
    {[BaseRequest EXCEPT !.language = language, !.chunk_retries = chunk_retries] :
        language \in {"en", "it"}, chunk_retries \in {0, 1}}

SwitchNames == ModelNames \cup {"bogus"}

\* speaker ids a client registers under: empty, short, of the greatest length
\* allowed, and one character longer
CloneIds == {<<>>, IdA, Str(MaxIdLen, "a"), Str(MaxIdLen + 1, "a")}

\* durations of the uploaded reference audio: on both sides of each limit, and
\* audio librosa cannot read
CloneDurations ==
    {Undecodable, MinRefDuration - 1, MinRefDuration, MaxRefDuration, MaxRefDuration + 1}

\* ids a client asks to delete: IdB is never registered
DeleteIds == {IdA, IdB}

\* greatest length of the texts handed to smart_split
MaxChars == 5

\* greatest max_len handed to smart_split
MaxChunkLen == 4

\* the characters of those texts: a letter, whitespace, a sentence end, a comma
Alphabet == {"a", " ", "!", ","}

\* the texts of at most n characters
RECURSIVE Texts(_)
Texts(n) ==
    IF n = 0 THEN {<<>>}
    ELSE LET shorter == Texts(n - 1)
         IN  shorter \cup {Append(text, c) : text \in {x \in shorter : Len(x) = n - 1},
                                             c \in Alphabet}

\* greatest number of chunk files handed to merge_wavs
MaxFiles == 3

\* the chunk files 1..n of a request, each kept from its first attempt
FileList(n) == [k \in 1..n |-> ChunkPath(k, 0)]

\* the WAV files on disk: each chunk file is missing or holds two bytes of
\* frames under one of the formats
WavsOnDisk ==
    LET Disk(present) ==
            [present -> {[params |-> p, data |-> <<0, 0>>] : p \in WavParams}]
    IN  UNION {Disk({ChunkPath(k, 0) : k \in ks}) : ks \in SUBSET (1..MaxFiles)}

\* a sentence of the given length: one letter repeated, then the terminator
Sentence(n, letter, terminator) == Str(n - 1, letter) \o <<terminator>>

\* the letters of the first, second and third sentence of a text
Letters == <<"a", "b", "c">>

\* the sentences joined by single spaces
RECURSIVE Joined(_)
Joined(sentences) ==
    IF Len(sentences) <= 1 THEN (IF sentences = <<>> THEN <<>> ELSE Head(sentences))
    ELSE Head(sentences) \o <<" ">> \o Joined(Tail(sentences))

\* length of the sentences of a long request
SentenceLen == 150

\* requests whose text is three sentences of SentenceLen characters, against
\* the default chunk_size of 200
SentenceRequests ==
    {[BaseRequest EXCEPT !.text = Joined([k \in 1..3 |-> Sentence(SentenceLen, Letters[k], terminator)]),
                         !.chunk_min_seconds = chunk_min_seconds,
                         !.chunk_retries = chunk_retries] :
        terminator \in {".", "!", "?"}, chunk_min_seconds \in {0, 20},
        chunk_retries \in {0, 1}}

(***************************************************************************)
(* The server: startup, then the handlers in any order.  Serve(t, requests) *)
(* is handler thread t serving synthesize requests drawn from requests.    *)
(***************************************************************************)
Startup == \E x \in BOOLEAN, o \in OpenVoiceLoads : load_models(x, o)

Admin ==
    \/ \E model_name \in SwitchNames : switch_model(model_name)
    \/ \E duration \in {MinRefDuration} : clone_voice(IdA, duration)
    \/ delete_speaker(IdA)

Serve(t, requests) ==
    \/ \E data \in requests : synthesize(t, data)
    \/ XttsCall(t)
    \/ \E outcome \in Outcomes : XttsReturn(t, outcome)
    \/ XttsFinish(t)
    \/ \E ok \in BOOLEAN : DirectReturn(t, ok)
    \/ Close(t)

\* one client: requests are served one after the other
Next == Startup \/ Admin \/ Serve(1, Requests)

Spec == Init /\ [][Next]_vars

\* two clients: app.run(threaded=True) serves their requests in two threads
NextThreaded == Startup \/ Admin \/ \E t \in Threads : Serve(t, ThreadedRequests)

SpecThreaded == Init /\ [][NextThreaded]_vars

\* one client registering and deleting speakers and synthesizing with IdA
NextRegistry ==
    \/ Startup
    \/ \E speaker_id \in CloneIds, duration \in CloneDurations :
           clone_voice(speaker_id, duration)
    \/ \E speaker_id \in DeleteIds : delete_speaker(speaker_id)
    \/ Serve(1, {BaseRequest})

SpecRegistry == Init /\ [][NextRegistry]_vars

\* smart_split on every text of at most MaxChars characters and every max_len
\* up to MaxChunkLen
InitSplit ==
    /\ started = TRUE
    /\ xtts_model = TRUE
    /\ chatterbox_model = FALSE
    /\ openvoice_tts_model = FALSE
    /\ openvoice_converter = FALSE
    /\ model_loaded = TRUE
    /\ active_model = "xtts"
    /\ speakers = EmptyMap
    /\ ref_files = EmptyMap
    /\ pc = [t \in Threads |-> IF t = 1 THEN "splitting" ELSE "idle"]
    /\ \E text \in Texts(MaxChars), max_len \in 0..MaxChunkLen :
          loc = [t \in Threads |->
                    IF t = 1 THEN [NoLocals EXCEPT !.text = text, !.chunk_length = max_len]
                    ELSE NoLocals]
    /\ tmp = [t \in Threads |-> {}]
    /\ hist = [t \in Threads |-> NoHist]
    /\ resp = [t \in Threads |-> NoResp]
    /\ wavs = EmptyMap

NextSplit == SplitCall(1)

SpecSplit == InitSplit /\ [][NextSplit]_vars

\* merge_wavs on every list of chunk files and every content of the files
InitMerge ==
    /\ started = TRUE
    /\ xtts_model = TRUE
    /\ chatterbox_model = FALSE
    /\ openvoice_tts_model = FALSE
    /\ openvoice_converter = FALSE
    /\ model_loaded = TRUE
    /\ active_model = "xtts"
    /\ speakers = EmptyMap
    /\ ref_files = EmptyMap
    /\ pc = [t \in Threads |-> IF t = 1 THEN "merging" ELSE "idle"]
    /\ \E n \in 0..MaxFiles :
          loc = [t \in Threads |-> IF t = 1 THEN [NoLocals EXCEPT !.chunk_files = FileList(n)]
                                   ELSE NoLocals]
    /\ tmp = [t \in Threads |-> {}]
    /\ hist = [t \in Threads |-> NoHist]
    /\ resp = [t \in Threads |-> NoResp]
    /\ wavs \in WavsOnDisk

NextMerge == MergeCall(1)

SpecMerge == InitMerge /\ [][NextMerge]_vars

\* one client sending long texts to a server with one registered speaker
NextSentences ==
    \/ Startup
    \/ clone_voice(IdA, MinRefDuration)
    \/ Serve(1, SentenceRequests)

SpecSentences == Init /\ [][NextSentences]_vars

(***************************************************************************)
(* What the claims speak of.                                               *)
(***************************************************************************)
\* backend calls made so far for the chunk hist[t] records, the one in
\* progress included
AttemptsMade(t) == Len(hist[t].outcomes) + (IF pc[t] = "call" THEN 1 ELSE 0)

\* the retry loop of the chunk hist[t] records has ended
ChunkDone(t) ==
    /\ hist[t].chunk >= 1
    /\ pc[t] \in {"loop", "merge", "sent"}
    /\ loc[t].i > hist[t].chunk

\* the files kept for chunk c of thread t's request
Chosen(t, c) ==
    {loc[t].chunk_files[k] : k \in {j \in 1..Len(loc[t].chunk_files) :
                                       loc[t].chunk_files[j][1] = c}}

\* attempts (numbered from 1) of the recorded chunk that returned audio
Returned(t) == {k \in 1..Len(hist[t].outcomes) : hist[t].outcomes[k].ok}

\* attempts of the recorded chunk whose audio met chunk_min_seconds
Passing(t) ==
    {k \in Returned(t) : hist[t].outcomes[k].duration >= loc[t].chunk_min_seconds}

\* thread t is inside a call of the named backend
InCall(t, backend) == pc[t] \in {"call", "direct"} /\ loc[t].backend = backend

(***************************************************************************)
(* C1: if every one of the chunk_retries+1 attempts of some chunk raised,  *)
(* the request fails and returns no audio, whatever the other chunks did.  *)
(* The code drops the chunk and returns the audio of the others.           *)
(***************************************************************************)
C1_FailedChunkFailsRequest ==
    \A t \in Threads :
        (pc[t] = "sent" /\ hist[t].errored # {})
            => (resp[t].code # 200 /\ resp[t].audio = <<>>)

(***************************************************************************)
(* C2: with chunk_min_seconds > 0, when some attempt of a chunk met the    *)
(* threshold, the file kept for the chunk is that of the first such        *)
(* attempt, and the attempts made for the chunk end with it.               *)
(***************************************************************************)
C2_FirstPassingAttemptKept ==
    \A t \in Threads :
        (ChunkDone(t) /\ loc[t].chunk_min_seconds > 0 /\ Passing(t) # {})
            => LET first == Min(Passing(t))
               IN  /\ Chosen(t, hist[t].chunk) = {ChunkPath(hist[t].chunk, first - 1)}
                   /\ AttemptsMade(t) = first

\* the scenario of the spec: durations 1.0, 1.5, 2.5 against 2.0 with 2 retries
C2_Witness ==
    /\ ChunkDone(1)
    /\ loc[1].chunk_min_seconds = 20 /\ loc[1].chunk_retries = 2
    /\ hist[1].outcomes = <<Audio(10), Audio(15), Audio(25)>>
    /\ Chosen(1, hist[1].chunk) = {ChunkPath(hist[1].chunk, 2)}

(***************************************************************************)
(* C3: with chunk_min_seconds > 0, when all chunk_retries+1 attempts of a  *)
(* chunk were made, none met the threshold and at least one returned       *)
(* audio, a file is kept for the chunk and it is one of greatest duration  *)
(* among the attempts that returned audio.  The code keeps nothing when    *)
(* every returned duration is 0.                                           *)
(***************************************************************************)
C3_LongestAttemptKept ==
    \A t \in Threads :
        (/\ ChunkDone(t)
         /\ loc[t].chunk_min_seconds > 0
         /\ Len(hist[t].outcomes) = loc[t].chunk_retries + 1
         /\ Passing(t) = {}
         /\ Returned(t) # {})
            => /\ Chosen(t, hist[t].chunk) # {}
               /\ \A p \in Chosen(t, hist[t].chunk) :
                     /\ p[2] + 1 \in Returned(t)
                     /\ \A k \in Returned(t) :
                           hist[t].outcomes[k].duration <= hist[t].outcomes[p[2] + 1].duration

(***************************************************************************)
(* C4 as stated: with chunk_min_seconds <= 0 at most one backend attempt   *)
(* is made per chunk, also when a call raises.                             *)
(***************************************************************************)
C4_AtMostOneAttempt ==
    \A t \in Threads :
        (hist[t].chunk >= 1 /\ loc[t].chunk_min_seconds <= 0) => AttemptsMade(t) <= 1

(***************************************************************************)
(* C4 as amended: with chunk_min_seconds <= 0 the first attempt that       *)
(* returns audio is kept and ends the chunk's loop, so every attempt but   *)
(* the last one made for a chunk raised.                                   *)
(***************************************************************************)
C4_OnlyErrorsAreRetried ==
    \A t \in Threads :
        (hist[t].chunk >= 1 /\ loc[t].chunk_min_seconds <= 0)
            => /\ \A k \in Returned(t) : k = AttemptsMade(t)
               /\ (ChunkDone(t) /\ Returned(t) # {})
                     => Chosen(t, hist[t].chunk) =
                            {ChunkPath(hist[t].chunk, AttemptsMade(t) - 1)}

\* a second attempt after a call that raised, then audio
C4_Witness ==
    /\ ChunkDone(1)
    /\ loc[1].chunk_min_seconds <= 0
    /\ Len(hist[1].outcomes) = 2
    /\ ~hist[1].outcomes[1].ok /\ hist[1].outcomes[2].ok

(***************************************************************************)
(* C5: the backend calls made for a chunk are among its first              *)
(* chunk_retries+1 attempts, and no call is made for a chunk after an      *)
(* attempt of it was accepted.                                             *)
(***************************************************************************)
\* attempt k of the recorded chunk was accepted (lines 366-369, 376-378)
Accepted(t, k) ==
    /\ k \in Returned(t)
    /\ loc[t].chunk_min_seconds > 0 => k \in Passing(t)

C6_BackendCallsSerialized ==
    \A t, u \in Threads, backend \in ModelNames :
        (InCall(t, backend) /\ InCall(u, backend)) => t = u

(***************************************************************************)
(* C7: a request whose language is in xtts_languages is dispatched to XTTS *)
(* when XTTS is available, whatever active_model is; any other request is  *)
(* dispatched to the active backend when that one is available.            *)
(***************************************************************************)
\* thread t takes a request past the checks of synthesize in this step
Routes(t) == pc[t] = "idle" /\ loc'[t].language # None

C7_SelectionPolicy ==
    [][\A t \in Threads :
          Routes(t) =>
              /\ (loc'[t].language \in xtts_languages /\ Available("xtts"))
                    => loc'[t].backend = "xtts"
              /\ (loc'[t].language \notin xtts_languages /\ Available(active_model))
                    => loc'[t].backend = active_model]_vars

\* an Italian request in an XTTS call while OpenVoice is the active model
C7_Witness ==
    /\ pc[1] = "call"
    /\ loc[1].language = "it" /\ loc[1].backend = "xtts"
    /\ active_model = "openvoice"

(***************************************************************************)
(* C8: whenever at least one backend is available, no request fails for    *)
(* want of a backend.  After a startup in which XTTS does not load and     *)
(* load_openvoice_models raises past the assignment of openvoice_tts_model,*)
(* OpenVoice is reported available and every request is refused.           *)
(***************************************************************************)
NoBackendErrors == {"No model loaded", "No model available"}

C8_ResolvesWhenAvailable ==
    \A t \in Threads :
        (pc[t] = "sent" /\ \E name \in ModelNames : Available(name))
            => resp[t].detail \notin NoBackendErrors

(***************************************************************************)
(* C9: switch_model(name) succeeds, making name the active model, only if  *)
(* that backend is available; otherwise (an unknown name included) it      *)
(* fails and leaves active_model as it was.                                *)
(***************************************************************************)
C9_SwitchOnlyToAvailable ==
    [][\A name \in SwitchNames :
          switch_model(name) =>
              /\ SwitchStatus(name) = 200 => (Available(name) /\ active_model' = name)
              /\ ~Available(name) => (SwitchStatus(name) = 400 /\ active_model' = active_model)]_vars

\* OpenVoice made active by a switch: startup prefers XTTS when it loads
C9_Witness == xtts_model /\ openvoice_tts_model /\ active_model = "openvoice"

(***************************************************************************)
(* C10: a request with an invalid field (text empty after cleaning or      *)
(* longer than 5000, speed outside [0.5, 2.0], unknown speaker, negative   *)
(* chunk_retries, non-positive chunk_size) reaches no backend call, and a  *)
(* rejected request leaves models, registry and files as they were.  The   *)
(* code checks none of the chunking fields.                                *)
(***************************************************************************)
ValidFields(l) ==
    /\ l.text # <<>> /\ Len(l.text) <= MaxTextLen
    /\ l.speed >= MinSpeed /\ l.speed <= MaxSpeed
    /\ l.audio_path \in DOMAIN speakers
    /\ l.chunk_length > 0
    /\ l.chunk_retries >= 0

C10_InvalidRejectedFirst ==
    [][\A t \in Threads :
          pc[t] = "idle" =>
              /\ pc'[t] \in {"loop", "direct"} => ValidFields(loc'[t])
              /\ pc'[t] = "sent" => UNCHANGED <<models, registry, tmp>>]_vars

(***************************************************************************)
(* C11: the audio returned for a request is made of the files kept for its *)
(* chunks, in increasing chunk order and each exactly once, whatever the   *)
(* number of chunks and the outcomes of the attempts.                      *)
(***************************************************************************)
\* thread t has answered an XTTS request with audio
Answered(t) == pc[t] = "sent" /\ resp[t].code = 200 /\ loc[t].backend = "xtts"

C11_ChunksInOrder ==
    \A t \in Threads :
        Answered(t) =>
            LET audio == resp[t].audio
                kept  == loc[t].chunk_files
            IN  /\ \A j, k \in 1..Len(audio) : j < k => audio[j][1] < audio[k][1]
                /\ {audio[k] : k \in 1..Len(audio)} = {kept[k] : k \in 1..Len(kept)}
                /\ \A k \in 1..Len(audio) : audio[k][1] \in 1..Len(loc[t].chunks)

\* three chunks, the second one kept from its second attempt
C11_Witness ==
    /\ Answered(1)
    /\ Len(resp[1].audio) = 3
    /\ resp[1].audio[2] = ChunkPath(2, 1)

(***************************************************************************)
(* C12: when a request has ended, with audio or with an error, none of the *)
(* chunk files its attempts wrote still exists.  The code unlinks only the *)
(* files in chunk_files (lines 399-401): the file of an attempt that was   *)
(* too short and was not kept stays on disk.                               *)
(***************************************************************************)
C12_NoChunkFileLeft ==
    \A t \in Threads : pc[t] = "sent" => tmp[t] = {}

(***************************************************************************)
(* C13: a clone_voice that fails for an invalid id or for reference audio  *)
(* too short or too long leaves the registry and the reference files as    *)
(* they were, also when the id is already registered.  The code saves the  *)
(* upload over speakers/<id>.wav before it measures it, and unlinks that   *)
(* path when the duration is refused.                                      *)
(***************************************************************************)
\* clone_voice refuses the id or the duration
Refused(speaker_id, duration) ==
    /\ CloneStatus(speaker_id, duration) = 400
    /\ duration # Undecodable

C13_FailedCloneChangesNothing ==
    [][\A speaker_id \in CloneIds, duration \in CloneDurations :
          (clone_voice(speaker_id, duration) /\ Refused(speaker_id, duration))
              => UNCHANGED registry]_vars

(***************************************************************************)
(* C14 as stated: clone_voice registers the speaker if and only if the id  *)
(* is non-empty and at most 100 characters long and 3.0 <= d <= 60.0, and  *)
(* then the registry holds d for the id.                                   *)
(***************************************************************************)
ValidClone(speaker_id, duration) ==
    /\ speaker_id # <<>> /\ Len(speaker_id) <= MaxIdLen
    /\ duration >= MinRefDuration /\ duration <= MaxRefDuration

\* the registry after the step holds the speaker with the given duration
Recorded(speaker_id, duration) ==
    /\ speaker_id \in DOMAIN speakers'
    /\ speakers'[speaker_id].duration = duration

\* a clone_voice answered 200 has recorded the speaker, any other has left
\* the registry's entries alone
CloneEffect ==
    \A speaker_id \in CloneIds, duration \in CloneDurations :
        clone_voice(speaker_id, duration) =>
            IF CloneStatus(speaker_id, duration) = 200
            THEN Recorded(speaker_id, duration)
            ELSE speakers' = speakers

C14_RegistersIffValid ==
    /\ [](\A speaker_id \in CloneIds, duration \in CloneDurations :
             started => (CloneStatus(speaker_id, duration) = 200
                            <=> ValidClone(speaker_id, duration)))
    /\ [][CloneEffect]_vars

(***************************************************************************)
(* C14 as amended: while a model is loaded clone_voice registers the       *)
(* speaker if and only if the id and the duration are valid (both limits   *)
(* inclusive), and then the registry holds d for the id; while no model is *)
(* loaded it registers nothing.                                            *)
(***************************************************************************)
C14_RegistersIffValidAndLoaded ==
    /\ [](\A speaker_id \in CloneIds, duration \in CloneDurations :
             started => (CloneStatus(speaker_id, duration) = 200
                            <=> (model_loaded /\ ValidClone(speaker_id, duration))))
    /\ [][CloneEffect]_vars

\* both limits accepted: an id of 100 characters with 60.0 s, IdA with 3.0 s
C14_Witness ==
    /\ Str(MaxIdLen, "a") \in DOMAIN speakers
    /\ speakers[Str(MaxIdLen, "a")].duration = MaxRefDuration
    /\ IdA \in DOMAIN speakers
    /\ speakers[IdA].duration = MinRefDuration

(***************************************************************************)
(* C15: delete_speaker on a registered id removes its entry and its        *)
(* reference file, the id is no longer listed and a synthesize for it is   *)
(* answered 404; on an unregistered id it answers 404 and leaves the       *)
(* registry and the files as they were.                                    *)
(***************************************************************************)
\* what a delete_speaker step and a synthesize for an unlisted speaker do
DeleteEffect ==
    /\ \A speaker_id \in DeleteIds :
          delete_speaker(speaker_id) =>
              IF speaker_id \in DOMAIN speakers
              THEN /\ speaker_id \notin list_speakers'
                   /\ speakers[speaker_id].audio_path \notin DOMAIN ref_files'
                   /\ \A other \in DOMAIN speakers \ {speaker_id} :
                         /\ other \in list_speakers' /\ speakers'[other] = speakers[other]
                         /\ other \in DOMAIN ref_files =>
                              (other \in DOMAIN ref_files' /\ ref_files'[other] = ref_files[other])
              ELSE UNCHANGED registry
    /\ \A t \in Threads :
          (synthesize(t, BaseRequest) /\ model_loaded
              /\ BaseRequest.speaker_id \notin list_speakers)
              => (pc'[t] = "sent" /\ resp'[t].code = 404)

C15_DeleteRemovesSpeaker ==
    /\ [](\A speaker_id \in DeleteIds :
             DeleteStatus(speaker_id) = (IF speaker_id \in list_speakers THEN 200 ELSE 404))
    /\ [][DeleteEffect]_vars

\* IdA deleted while a request for it is in a backend call, another speaker
\* still registered
C15_Witness ==
    /\ pc[1] = "call" /\ loc[1].audio_path = IdA
    /\ IdA \notin list_speakers /\ IdA \notin DOMAIN ref_files
    /\ list_speakers # {}

(***************************************************************************)
(* C16: merge_wavs fails and writes no merged file whenever one of the     *)
(* files differs in format (channels, sample width, frame rate) from the   *)
(* first, and whenever the list of files is empty.  The code never         *)
(* compares formats: it writes every file's frames under the parameters of *)
(* the first file it could read.                                           *)
(***************************************************************************)
\* some file of the list differs in format from the first
FormatMismatch(file_paths) ==
    \E k \in 1..Len(file_paths) :
        /\ file_paths[1] \in DOMAIN wavs /\ file_paths[k] \in DOMAIN wavs
        /\ wavs[file_paths[k]].params # wavs[file_paths[1]].params

C16_MergeChecksFormat ==
    \A t \in Threads :
        (pc[t] \in {"merged", "unmerged"}
            /\ (loc[t].chunk_files = <<>> \/ FormatMismatch(loc[t].chunk_files)))
            => (pc[t] = "unmerged" /\ WholePath \notin DOMAIN wavs)

(***************************************************************************)
(* C17: a request whose text is three sentences of 150 characters, with    *)
(* chunk_size 200, is synthesized as three chunks, none longer than 200,   *)
(* in the order of the sentences.  The text cleaning of synthesize turns   *)
(* every full stop into a space before smart_split looks for sentence      *)
(* ends.                                                                   *)
(***************************************************************************)
\* thread t is synthesizing a text of three sentences with XTTS
LongRequest(t) ==
    /\ pc[t] \in {"loop", "call", "merge"}
    /\ \A k \in 1..3 :
          Cardinality({j \in 1..Len(loc[t].text) : loc[t].text[j] = Letters[k]})
              = SentenceLen - 1

C17_ThreeSentencesThreeChunks ==
    \A t \in Threads :
        LongRequest(t) =>
            /\ Len(loc[t].chunks) = 3
            /\ \A k \in 1..Len(loc[t].chunks) :
                  /\ Len(loc[t].chunks[k]) <= loc[t].chunk_length
                  /\ k <= 3 => \E j \in 1..Len(loc[t].chunks[k]) :
                                  loc[t].chunks[k][j] = Letters[k]
                  /\ \A j \in 1..Len(loc[t].chunks[k]) :
                        \A other \in 1..3 : other # k => loc[t].chunks[k][j] # Letters[other]

(***************************************************************************)
(* C18: every chunk smart_split returns is at most max_len long, unless    *)
(* the text has a piece without a sentence end or a comma inside that is   *)
(* longer than max_len by itself; a text of at most max_len characters is  *)
(* returned as the single chunk.  A sentence of exactly max_len characters *)
(* followed by another one comes back longer, with " ," appended.          *)
(***************************************************************************)
\* smart_split has returned in thread t
Split(t) == pc[t] = "split"

\* the pieces of the text between sentence ends and commas
Pieces(text) ==
    LET sentences == SplitSentences(text)
    IN  UNION {LET parts == SplitCommas(sentences[k])
               IN  {parts[j] : j \in 1..Len(parts)} : k \in 1..Len(sentences)}

C18_ChunksWithinMaxLen ==
    \A t \in Threads :
        Split(t) =>
            LET l == loc[t]
            IN  /\ Len(l.text) <= l.chunk_length => l.chunks = <<l.text>>
                /\ (\A piece \in Pieces(l.text) : Len(piece) <= l.chunk_length)
                      => \A k \in 1..Len(l.chunks) : Len(l.chunks[k]) <= l.chunk_length

(***************************************************************************)
(* C19: for a non-empty text every chunk smart_split returns is non-empty  *)
(* and has no whitespace at either end.  A sentence longer than max_len    *)
(* comes back with the space the loop appended to it, and commas at the    *)
(* head of such a sentence give an empty chunk.                            *)
(***************************************************************************)
C19_ChunksNonEmptyTrimmed ==
    \A t \in Threads :
        (Split(t) /\ loc[t].text # <<>>)
            => \A k \in 1..Len(loc[t].chunks) :
                  /\ loc[t].chunks[k] # <<>>
                  /\ Strip(loc[t].chunks[k]) = loc[t].chunks[k]

(***************************************************************************)
(* C20: the chunks smart_split returns, put end to end, hold the           *)
(* characters of the text other than whitespace and commas, all of them,   *)
(* once each and in order.                                                 *)
(***************************************************************************)
\* the characters of s that are neither whitespace nor commas
Significant(s) ==
    LET Counts(c) == c \notin Whitespace \cup {","}
    IN  SelectSeq(s, Counts)

\* the chunks put end to end
RECURSIVE Concatenated(_)
Concatenated(chunks) ==
    IF chunks = <<>> THEN <<>> ELSE Head(chunks) \o Concatenated(Tail(chunks))

C20_ContentPreserved ==
    \A t \in Threads :
        Split(t) => Significant(Concatenated(loc[t].chunks)) = Significant(loc[t].text)

\* a text cut into three chunks, at a sentence end and at a comma
C20_Witness ==
    /\ Split(1)
    /\ loc[1].text = <<"!", " ", "a", ",", "a">>
    /\ Len(loc[1].chunks) = 3

(***************************************************************************)
(* C21: no request is answered with audio in a language other than the one *)
(* it asked for: when the backend it is routed to does not know the        *)
(* language, the request fails.  Both backends look the code up with a     *)
(* default, 'en' for XTTS and 'English' for OpenVoice, and synthesize in   *)
(* that language.                                                          *)
(***************************************************************************)
\* the backend thread t was routed to knows the language of its request and
\* is asked to speak it
SpeaksRequested(t) ==
    LET map == IF loc[t].backend = "xtts" THEN xtts_lang_map ELSE language_map
    IN  /\ loc[t].language \in DOMAIN map
        /\ loc[t].spoken = map[loc[t].language]

C21_NoFallbackLanguage ==
    \A t \in Threads :
        (pc[t] = "sent" /\ resp[t].code = 200) => SpeaksRequested(t)

(***************************************************************************)
(* C22: every backend call of a synthesis request, all chunks and all      *)
(* retries, is made on the backend selected when the request started; a    *)
(* switch of the active model while the request runs does not move its     *)
(* remaining calls to another backend.                                     *)
(***************************************************************************)
C22_OneBackendPerRequest ==
    \A t \in Threads : hist[t].called \subseteq {loc[t].backend}

\* a request for a language every backend speaks is in its second call on
\* XTTS or later, and the active model is no longer XTTS
C22_Witness ==
    /\ pc[1] = "call"
    /\ loc[1].language = "en"
    /\ loc[1].backend = "xtts"
    /\ hist[1].called = {"xtts"}
    /\ loc[1].i + loc[1].attempt > 1
    /\ active_model = "openvoice"

(***************************************************************************)
(* C23: from the moment a synthesis request has found its speaker in the   *)
(* registry until its last backend call has returned, the speaker's        *)
(* registry entry and reference-audio file are still there, whatever       *)
(* delete_speaker and clone_voice requests arrive meanwhile.  No lock is   *)
(* taken anywhere: delete_speaker unlinks the file and deletes the entry   *)
(* while the request is between or inside its backend calls.               *)
(***************************************************************************)
\* thread t has passed the speaker check and has a backend call still to
\* make or to finish
UsingSpeaker(t) == pc[t] \in {"loop", "call", "direct"}

C23_SpeakerKeptWhileInUse ==
    \A t \in Threads :
        UsingSpeaker(t) =>
            /\ loc[t].audio_path \in DOMAIN ref_files
            /\ \E speaker_id \in DOMAIN speakers :
                   speakers[speaker_id].audio_path = loc[t].audio_path

(***************************************************************************)
(* C24: provided every backend call returns, every synthesis request       *)
(* reaches a terminal outcome, and has made by then at most                *)
(* (number of chunks) x (chunk_retries + 1) backend calls, whatever the    *)
(* calls return.                                                           *)
(***************************************************************************)
\* the steps of the handler thread between accepting a request and sending
\* its response: each backend call is entered and returns
Run(t) ==
    \/ XttsCall(t)
    \/ \E outcome \in Outcomes : XttsReturn(t, outcome)
    \/ XttsFinish(t)
    \/ \E ok \in BOOLEAN : DirectReturn(t, ok)

\* one client; its handler thread keeps running and every backend call it
\* makes returns
SpecLive == Init /\ [][Next]_vars /\ WF_vars(Run(1))

\* the number of chunks of thread t's request
ChunkCount(t) == Len(smart_split(loc[t].text, loc[t].chunk_length))

\* every request in progress gets its response, audio or failure
C24_Terminates ==
    \A t \in {1} : (pc[t] \in {"loop", "call", "direct", "merge"}) ~> (pc[t] = "sent")

\* the backend calls of a request never exceed chunks x (chunk_retries + 1)
C24_BoundedCalls ==
    \A t \in Threads : hist[t].calls <= ChunkCount(t) * (loc[t].chunk_retries + 1)

(***************************************************************************)
(* C25: on every backend the text of the request is split by smart_split   *)
(* and the chunks are synthesized one by one under the request's chunking  *)
(* policy, so every backend call is made on one chunk of the split.  Only  *)
(* synthesize_with_xtts splits and retries: synthesize_with_openvoice and  *)
(* synthesize_with_chatterbox hand the whole text to the model in one      *)
(* call.                                                                   *)
(***************************************************************************)
\* the text thread t's backend call in progress is made on
CallText(t) == IF pc[t] = "call" THEN loc[t].chunks[loc[t].i] ELSE loc[t].text

\* stated for requests with a positive maximum chunk length
C25_EveryBackendChunks ==
    \A t \in Threads :
        (pc[t] \in {"call", "direct"} /\ loc[t].chunk_length > 0) =>
            LET chunks == smart_split(loc[t].text, loc[t].chunk_length)
            IN  \E k \in 1..Len(chunks) : CallText(t) = chunks[k]

(***************************************************************************)
(* C26: after any clone_voice and delete_speaker requests, accepted or     *)
(* refused, the same id registered again included, every registered        *)
(* speaker has its reference-audio file on disk and no reference-audio     *)
(* file is on disk for an id that is not registered.                       *)
(***************************************************************************)
C26_RegistryMatchesFiles ==
    /\ \A speaker_id \in DOMAIN speakers :
           speakers[speaker_id].audio_path \in DOMAIN ref_files
    /\ \A path \in DOMAIN ref_files :
           \E speaker_id \in DOMAIN speakers : speakers[speaker_id].audio_path = path

(***************************************************************************)
(* C27: in every state reached by load_models followed by any switch_model *)
(* requests, if some backend is available the active model is an available *)
(* one, and model_loaded, the "ready" flag of /health, is true exactly     *)
(* when some backend is available.                                         *)
(***************************************************************************)
SomeAvailable == \E name \in ModelNames : Available(name)

C27_ActiveAndReadyMatchAvailable ==
    started =>
        /\ SomeAvailable => Available(active_model)
        /\ model_loaded <=> SomeAvailable

====
